---- MODULE Spec2Model ----
(***************************************************************************)
(* Model of streamlit_app.py: the Google Patents fetcher.                  *)
(*                                                                         *)
(* Python strings are modelled as sequences of one-character strings, so   *)
(* that strip, split, lower, substring search, quoting and joining are     *)
(* computed character by character as the code computes them.  A dict is a *)
(* function whose domain is its key set; an insertion-ordered dict (a row) *)
(* is a sequence of <<key, value>> pairs.                                  *)
(***************************************************************************)
EXTENDS Integers, Sequences, FiniteSets, TLC

VARIABLES
    raw,              \* text_area content (line 159)
    pats,             \* identifier list of the script run (line 165)
    selected_fields,  \* sidebar field selection (lines 143-150)
    include_url,      \* "Include URL column" checkbox (line 153)
    timeout,          \* "Timeout (seconds)" number_input (line 154)
    output_format,    \* "CSV" or "TSV" radio (line 157)
    pc,               \* position of the script: "idle", "loop", "done", ...
    i,                \* number of identifiers the Fetch loop has processed
    rows,             \* result list of the run (line 169)
    out_text,         \* delimited text of the run (line 212)
    cache,            \* entries of the st.cache_data cache of fetch_one
    now,              \* wall clock, in seconds
    lastCall,         \* observation of the most recent fetch_one call
    hist,             \* per cache key: the most recent fetch_one call raised
    response,         \* document handed to parse_core
    parsed            \* dict returned by parse_core

vars == <<raw, pats, selected_fields, include_url, timeout, output_format, pc, i,
          rows, out_text, cache, now, lastCall, hist, response, parsed>>

-----------------------------------------------------------------------------
(* Python str primitives *)

\* str.isspace() / regex \s on the modelled alphabet
IsSpace(c) == c \in {" ", "\t", "\n"}

\* str.strip()
strip(s) ==
    LET keep == {k \in 1..Len(s) : ~IsSpace(s[k])}
    IN  IF keep = {} THEN <<>>
        ELSE SubSeq(s, CHOOSE k \in keep : \A m \in keep : k <= m,
                       CHOOSE k \in keep : \A m \in keep : k >= m)

\* sub in s
Contains(s, sub) ==
    \E k \in 1..(Len(s) - Len(sub) + 1) : SubSeq(s, k, k + Len(sub) - 1) = sub
\* str.lower(), one character
LowerChar(c) ==
    CASE c = "A" -> "a"
      [] c = "B" -> "b"
      [] c = "C" -> "c"
      [] c = "D" -> "d"
      [] c = "E" -> "e"
      [] c = "F" -> "f"
      [] c = "G" -> "g"
      [] c = "H" -> "h"
      [] c = "I" -> "i"
      [] c = "J" -> "j"
      [] c = "K" -> "k"
      [] c = "L" -> "l"
      [] c = "M" -> "m"
      [] c = "N" -> "n"
      [] c = "O" -> "o"
      [] c = "P" -> "p"
      [] c = "Q" -> "q"
      [] c = "R" -> "r"
      [] c = "S" -> "s"
      [] c = "T" -> "t"
      [] c = "U" -> "u"
      [] c = "V" -> "v"
      [] c = "W" -> "w"
      [] c = "X" -> "x"
      [] c = "Y" -> "y"
      [] c = "Z" -> "z"
      [] OTHER -> c

\* str.lower()
lower(s) == [k \in 1..Len(s) |-> LowerChar(s[k])]

\* sep.join(parts)
RECURSIVE join(_, _)
join(sep, parts) ==
    IF parts = <<>> THEN <<>>
    ELSE IF Len(parts) = 1 THEN parts[1]
    ELSE parts[1] \o sep \o join(sep, Tail(parts))

\* str(n) for a non-negative integer
RECURSIVE IntToStr(_)
IntToStr(n) ==
    LET digit == <<"0", "1", "2", "3", "4", "5", "6", "7", "8", "9">>
    IN  IF n < 10 THEN <<digit[n + 1]>>
        ELSE IntToStr(n \div 10) \o <<digit[(n % 10) + 1]>>

-----------------------------------------------------------------------------
(* Literals of the source *)
F_patent_no == <<"p","a","t","e","n","t","_","n","o">>
F_title == <<"t","i","t","l","e">>
F_inventor == <<"i","n","v","e","n","t","o","r">>
F_assignee == <<"a","s","s","i","g","n","e","e">>
F_status == <<"s","t","a","t","u","s">>
F_priority_date == <<"p","r","i","o","r","i","t","y","_","d","a","t","e">>
F_exp_date == <<"e","x","p","_","d","a","t","e">>

DEFAULT_FIELDS == <<F_patent_no, F_title, F_inventor, F_assignee, F_status, F_priority_date, F_exp_date>>

K_pat_input_ == <<"_","p","a","t","_","i","n","p","u","t">>
K_url_ == <<"_","u","r","l">>
K_error_ == <<"_","e","r","r","o","r">>
K_pat_input == <<"p","a","t","_","i","n","p","u","t">>
K_url == <<"u","r","l">>
K_error == <<"e","r","r","o","r">>
S_Expired == <<"E","x","p","i","r","e","d">>
S_Active == <<"A","c","t","i","v","e">>
S_NoStatus == <<"N","o"," ","s","t","a","t","u","s"," ","o","r"," ","e","x","p"," ","d","a","t","e">>
S_DateMissing == <<"D","A","T","E"," ","M","I","S","S","I","N","G">>
S_InventorLabel == <<"I","n","v","e","n","t","o","r",":"," ">>
S_AssigneeLabel == <<"A","s","s","i","g","n","e","e",":"," ">>
S_None == <<"N","o","n","e">>
S_ExpOpen == <<" ","(","E","x","p","."," ">>
S_ExpClose == <<")">>
S_HTTP == <<"H","T","T","P"," ">>
S_UrlHead == <<"h","t","t","p","s",":","/","/","p","a","t","e","n","t","s",".","g","o","o","g","l","e",".","c","o","m","/","p","a","t","e","n","t","/">>
S_UrlMid == <<"/","e","n","?","o","q","=">>
S_TitleSep == <<" ","-"," ">>

Stoplist == {<<"p","a","t","e","n","t">>,
             <<"n","u","m","b","e","r">>,
             <<"p","a","t","e","n","t","n","u","m","b","e","r">>,
             <<"p","a","t","e","n","t","_","n","o">>,
             <<"p","a","t","e","n","t","-","n","o">>}

\* Python None (falsy, distinct from every str)
None == <<"<None>">>

\* truth value of a str-or-None
Truthy(v) == v # None /\ v # <<>>

-----------------------------------------------------------------------------
(* parse_patent_list *)

\* the separator class [\s,] of the regex
IsSep(c) == IsSpace(c) \/ c = ","

\* re.split(r"[\s,]+", s): cur is the token read so far, k the next position
RECURSIVE ReSplitList(_, _, _)
ReSplitList(s, k, cur) ==
    IF k > Len(s) THEN <<cur>>
    ELSE IF IsSep(s[k])
         THEN LET rest == {m \in (k + 1)..Len(s) : ~IsSep(s[m])}
                  n    == IF rest = {} THEN Len(s) + 1
                          ELSE CHOOSE m \in rest : \A m2 \in rest : m <= m2
              IN  <<cur>> \o ReSplitList(s, n, <<>>)
         ELSE ReSplitList(s, k + 1, Append(cur, s[k]))

\* first loop: strip each token, drop empty ones and header words
RECURSIVE FilterTokens(_)
FilterTokens(toks) ==
    IF toks = <<>> THEN <<>>
    ELSE LET t == strip(Head(toks))
         IN  IF t = <<>> THEN FilterTokens(Tail(toks))
             ELSE IF lower(t) \in Stoplist THEN FilterTokens(Tail(toks))
             ELSE <<t>> \o FilterTokens(Tail(toks))

\* mutant: the second loop appends every token
DeDupe_KeepAll(ps, seen) == ps

\* second loop: de-dupe preserving order
RECURSIVE DeDupe(_, _)
DeDupe(ps, seen) ==
    IF ps = <<>> THEN <<>>
    ELSE IF Head(ps) \notin seen
         THEN <<Head(ps)>> \o DeDupe(Tail(ps), seen \cup {Head(ps)})
         ELSE DeDupe(Tail(ps), seen)

parse_patent_list(text) == DeDupe(FilterTokens(ReSplitList(strip(text), 1, <<>>)), {})

\* pats of a script run
PatsOf(text) == IF strip(text) # <<>> THEN parse_patent_list(text) ELSE <<>>

-----------------------------------------------------------------------------
(* GooglePatentsClient *)

url_from_patno(no) == S_UrlHead \o no \o S_UrlMid \o no

\* re.split(r" - |\n", s)
RECURSIVE ReSplitTitle(_, _, _)
ReSplitTitle(s, k, cur) ==
    IF k > Len(s) THEN <<cur>>
    ELSE IF k + 2 <= Len(s) /\ SubSeq(s, k, k + 2) = S_TitleSep
         THEN <<cur>> \o ReSplitTitle(s, k + 3, <<>>)
    ELSE IF s[k] = "\n"
         THEN <<cur>> \o ReSplitTitle(s, k + 1, <<>>)
    ELSE ReSplitTitle(s, k + 1, Append(cur, s[k]))

\* An element found by soup.find: present or not, with its text.  The time
\* element also carries its datetime attribute; doc.events lists the "events"
\* elements in document order, each with its title text and datetime.
Absent == [present |-> FALSE, text |-> <<>>]
Elem(t) == [present |-> TRUE, text |-> t]

\* tag and tag.text
HasText(tag) == tag.present /\ tag.text # <<>>

\* lines 38-45: patent number and title from <title>
TitleParts(doc) ==
    IF HasText(doc.title) THEN ReSplitTitle(doc.title.text, 1, <<>>) ELSE <<>>

patent_no_of(doc) ==
    IF Len(TitleParts(doc)) >= 2 THEN strip(TitleParts(doc)[1]) ELSE None

title_of(doc) ==
    IF Len(TitleParts(doc)) >= 2 THEN strip(TitleParts(doc)[2]) ELSE None

\* lines 47-51
inventor_of(doc) ==
    IF HasText(doc.inventor) THEN strip(doc.inventor.text) ELSE None

\* mutant: the assignee is kept when it repeats the inventor
assignee_of_NoDeDupe(doc, inventor) ==
    IF HasText(doc.assignee) THEN strip(doc.assignee.text) ELSE None

\* lines 53-61
assignee_of(doc, inventor) ==
    IF HasText(doc.assignee)
    THEN LET assignee_text == strip(doc.assignee.text)
         IN  IF Truthy(inventor) /\ assignee_text = inventor
             THEN None
             ELSE assignee_text
    ELSE None

\* lines 63-67
priority_date_of(doc) ==
    IF HasText(doc.priorityDate) THEN strip(doc.priorityDate.text) ELSE None

\* mutant: == "Expired" instead of "Expired" in
status_val_of_Equals(doc) ==
    IF HasText(doc.status)
    THEN LET status_val == strip(doc.status.text)
         IN  IF status_val = S_Expired THEN S_Expired ELSE status_val
    ELSE None

\* lines 73-77
status_val_of(doc) ==
    IF HasText(doc.status)
    THEN LET status_val == strip(doc.status.text)
         IN  IF Contains(status_val, S_Expired) THEN S_Expired ELSE status_val
    ELSE None

\* lines 79-81
exp_date_of(doc) ==
    IF HasText(doc.expiration) THEN strip(doc.expiration.text) ELSE None

\* lines 83-89
status_str_of(status_val, exp_date) ==
    IF Truthy(status_val)
    THEN IF status_val = S_Active /\ Truthy(exp_date)
         THEN status_val \o S_ExpOpen \o exp_date \o S_ExpClose
         ELSE status_val
    ELSE S_NoStatus

\* x or default
OrElse(x, default) == IF Truthy(x) THEN x ELSE default

parse_core(resp) ==
    LET doc == resp.text
        inventor == inventor_of(doc)
        assignee == assignee_of(doc, inventor)
        exp_date == exp_date_of(doc)
    IN  (F_patent_no :> OrElse(patent_no_of(doc), <<>>))
     @@ (F_title :> OrElse(title_of(doc), <<>>))
     @@ (F_inventor :> (S_InventorLabel \o OrElse(inventor, S_None)))
     @@ (F_assignee :> (S_AssigneeLabel \o OrElse(assignee, S_None)))
     @@ (F_status :> status_str_of(status_val_of(doc), exp_date))
     @@ (F_priority_date :> OrElse(priority_date_of(doc), S_DateMissing))
     @@ (F_exp_date :> OrElse(exp_date_of(doc), S_DateMissing))

-----------------------------------------------------------------------------
(* fetch_one and its cache *)

\* ttl of @st.cache_data, in seconds
TTL == 60 * 60

\* dict.get(k, default)
Get(d, k, default) == IF k \in DOMAIN d THEN d[k] ELSE default

EmptyDict == [k \in {} |-> <<>>]

\* What the transport does when a request is issued: kind "http" is a response
\* with a status code and a body, kind "exc" a requests.RequestException
\* raised by requests.get, with its class and its message.
HttpOutcome(code, doc) ==
    [kind |-> "http", code |-> code, doc |-> doc, cls |-> "", msg |-> <<>>]
ExcOutcome(cls, msg) ==
    [kind |-> "exc", code |-> 0, doc |-> <<>>, cls |-> cls, msg |-> msg]

\* the body of fetch_one, run on a cache miss
fetch_one_body(pat, tmo, o) ==
    LET url == url_from_patno(pat)
    IN  IF o.kind = "exc"
        THEN [raised |-> TRUE, cls |-> o.cls, msg |-> o.msg, data |-> EmptyDict]
        ELSE IF o.code # 200
        THEN [raised |-> FALSE, cls |-> "", msg |-> <<>>,
              data |-> (K_pat_input_ :> pat) @@ (K_url_ :> url)
                       @@ (K_error_ :> (S_HTTP \o IntToStr(o.code)))]
        ELSE [raised |-> FALSE, cls |-> "", msg |-> <<>>,
              data |-> (K_pat_input_ :> pat) @@ (K_url_ :> url) @@ (K_error_ :> <<>>)
                       @@ parse_core([text |-> o.doc, status_code |-> o.code])]

\* mutant: entries never expire
Fresh_Forever(e, t) == TRUE

\* a cache entry may be served at time t
Fresh(e, t) == t - e.time < TTL

Lookup(c, pat, tmo, t) ==
    {e \in c : e.pat = pat /\ e.timeout = tmo /\ Fresh(e, t)}

\* storing a return value replaces the entry of the key and drops expired entries
Store(c, pat, tmo, v, t) ==
    {e \in c : ~(e.pat = pat /\ e.timeout = tmo) /\ Fresh(e, t)}
        \cup {[pat |-> pat, timeout |-> tmo, value |-> v, time |-> t]}

\* mutant: an error dict is returned but not stored
fetch_one_ErrorsNotStored(pat, tmo, o, c, t) ==
    LET hits == Lookup(c, pat, tmo, t)
    IN  IF hits # {}
        THEN [raised |-> FALSE, cls |-> "", msg |-> <<>>, issued |-> FALSE,
              data |-> (CHOOSE e \in hits : TRUE).value, cache |-> c]
        ELSE LET r == fetch_one_body(pat, tmo, o)
             IN  [raised |-> r.raised, cls |-> r.cls, msg |-> r.msg, issued |-> TRUE,
                  data |-> r.data,
                  cache |-> IF r.raised \/ r.data[K_error_] # <<>> THEN c
                            ELSE Store(c, pat, tmo, r.data, t)]

\* fetch_one under @st.cache_data: a fresh entry of (pat, timeout) is returned
\* without running the body; otherwise the body runs, and its return value is
\* stored unless it raised.
fetch_one(pat, tmo, o, c, t) ==
    LET hits == Lookup(c, pat, tmo, t)
    IN  IF hits # {}
        THEN [raised |-> FALSE, cls |-> "", msg |-> <<>>, issued |-> FALSE,
              data |-> (CHOOSE e \in hits : TRUE).value, cache |-> c]
        ELSE LET r == fetch_one_body(pat, tmo, o)
             IN  [raised |-> r.raised, cls |-> r.cls, msg |-> r.msg, issued |-> TRUE,
                  data |-> r.data,
                  cache |-> IF r.raised THEN c ELSE Store(c, pat, tmo, r.data, t)]

-----------------------------------------------------------------------------
(* main: the Fetch loop and the export *)

\* row[k] = v on an insertion-ordered dict
SetItem(row, k, v) ==
    IF \E n \in 1..Len(row) : row[n][1] = k
    THEN [n \in 1..Len(row) |-> IF row[n][1] = k THEN <<k, v>> ELSE row[n]]
    ELSE Append(row, <<k, v>>)

\* list(row.keys())
Keys(row) == [n \in 1..Len(row) |-> row[n][1]]

\* row.get(k): None when the key is missing
RowGet(row, k) ==
    IF \E n \in 1..Len(row) : row[n][1] = k
    THEN row[CHOOSE n \in 1..Len(row) : row[n][1] = k][2]
    ELSE None

\* requests.RequestException and the subclasses the transport raises
RequestExceptions == {"RequestException", "ConnectionError", "Timeout"}

\* mutant: except requests.Timeout
Caught_TimeoutOnly(r) == r.raised /\ r.cls = "Timeout"

\* line 177: except requests.RequestException
Caught(r) == r.raised /\ r.cls \in RequestExceptions

\* lines 175-178: the call of fetch_one; a caught exception becomes an error dict
DataOf(r, pat) ==
    IF r.raised
    THEN (K_pat_input_ :> pat) @@ (K_url_ :> url_from_patno(pat)) @@ (K_error_ :> r.msg)
    ELSE r.data

\* lines 189-190
RECURSIVE AddFields(_, _, _)
AddFields(row, fields, data) ==
    IF fields = <<>> THEN row
    ELSE AddFields(SetItem(row, Head(fields), Get(data, Head(fields), <<>>)),
                   Tail(fields), data)

\* mutant: the error column is set only when there is an error
RowOf_ErrorWhenSet(data, pat, fields, withUrl) ==
    LET r1 == SetItem(<<>>, K_pat_input, Get(data, K_pat_input_, pat))
        r2 == IF withUrl THEN SetItem(r1, K_url, Get(data, K_url_, <<>>)) ELSE r1
        r3 == IF Truthy(Get(data, K_error_, None))
              THEN SetItem(r2, K_error, data[K_error_])
              ELSE r2
    IN  AddFields(r3, fields, data)

\* lines 180-190
RowOf(data, pat, fields, withUrl) ==
    LET r1 == SetItem(<<>>, K_pat_input, Get(data, K_pat_input_, pat))
        r2 == IF withUrl THEN SetItem(r1, K_url, Get(data, K_url_, <<>>)) ELSE r1
        r3 == IF Truthy(Get(data, K_error_, None))
              THEN SetItem(r2, K_error, data[K_error_])
              ELSE SetItem(r2, K_error, <<>>)
    IN  AddFields(r3, fields, data)

\* line 200
SepOf(fmt) == IF fmt = "CSV" THEN "," ELSE "\t"

\* val.replace('"', '""')
RECURSIVE DoubleQuotes(_)
DoubleQuotes(val) ==
    IF val = <<>> THEN <<>>
    ELSE (IF Head(val) = "\"" THEN <<"\"", "\"">> ELSE <<Head(val)>>)
             \o DoubleQuotes(Tail(val))

\* mutant: quote only if separator/newline present
Cell_NoQuoteTest(row, h, sep) ==
    LET v   == RowGet(row, h)
        val == IF v = None THEN <<>> ELSE v
    IN  IF sep \in {val[k] : k \in 1..Len(val)}
           \/ "\n" \in {val[k] : k \in 1..Len(val)}
        THEN <<"\"">> \o DoubleQuotes(val) \o <<"\"">>
        ELSE val

\* lines 207-209: one cell
Cell(row, h, sep) ==
    LET v   == RowGet(row, h)
        val == IF v = None THEN <<>> ELSE v
    IN  IF sep \in {val[k] : k \in 1..Len(val)}
           \/ "\n" \in {val[k] : k \in 1..Len(val)}
           \/ "\"" \in {val[k] : k \in 1..Len(val)}
        THEN <<"\"">> \o DoubleQuotes(val) \o <<"\"">>
        ELSE val

\* lines 200-212
Export(rs, fmt) ==
    LET sep     == SepOf(fmt)
        headers == IF rs # <<>> THEN Keys(rs[1]) ELSE <<>>
        line(r) == join(<<sep>>, [n \in 1..Len(headers) |-> Cell(r, headers[n], sep)])
        lines   == <<join(<<sep>>, headers)>> \o [n \in 1..Len(rs) |-> line(rs[n])]
    IN  join(<<"\n">>, lines)

-----------------------------------------------------------------------------
(* Inputs *)

\* upper end of the modelled clock
MaxClock == 5400

\* seconds that pass in one clock advance
ClockStep == 1800

PatA == <<"U","1">>
PatB == <<"U","2">>
PatIds == {PatA, PatB}

\* values of the timeout number_input (min 5, max 120, step 5)
Timeouts == {5, 30}

Formats == {"CSV", "TSV"}

\* texts pasted into the text area
MainRaws == {<<>>,
             <<"U","1">>,
             <<"U","1",","," ","U","1"," "," ","U","2">>,
             <<"p","a","t","e","n","t","\n","U","2","\n","U","1">>}

\* "Select all fields", the three boxes ticked by default, one box, no box
FieldChoices == {DEFAULT_FIELDS,
                 <<F_patent_no, F_priority_date, F_exp_date>>,
                 <<F_assignee, F_status>>,
                 <<>>}

TimeElem(t, dt) == [present |-> TRUE, text |-> t, datetime |-> dt]
NoTime == [present |-> FALSE, text |-> <<>>, datetime |-> <<>>]
Event(t, dt) == [title |-> t, datetime |-> dt]

EmptyDoc == [title |-> Absent, inventor |-> Absent, assignee |-> Absent,
             priorityDate |-> Absent, status |-> Absent, expiration |-> NoTime,
             events |-> <<>>]

\* a utility patent page: assignee repeats the inventor, title needs quoting
DocA == [title |-> Elem(<<"U","1"," ","-"," ","A"," ","\"","b","\"",","," ","c">>),
         inventor |-> Elem(<<"A","n","n">>),
         assignee |-> Elem(<<" ","A","n","n"," ">>),
         priorityDate |-> Elem(<<"2","0","1","0">>),
         status |-> Elem(S_Active),
         expiration |-> TimeElem(<<"2","0","3","0">>, <<"2","0","3","0">>),
         events |-> <<>>]

MainOutcomes == {HttpOutcome(200, DocA), HttpOutcome(200, EmptyDoc),
                 HttpOutcome(404, EmptyDoc), ExcOutcome("ConnectionError", <<"r","e","f","u","s","e","d">>)}

CacheKeys == PatIds \X Timeouts

NoOutcome == [kind |-> "none", code |-> 0, doc |-> <<>>, cls |-> "", msg |-> <<>>]
NoCall == [pat |-> <<>>, timeout |-> 0, issued |-> FALSE, raised |-> FALSE,
           stale |-> FALSE, outcome |-> NoOutcome, data |-> EmptyDict]
NoResponse == [text |-> EmptyDoc, status_code |-> 0]
NoHist == [k \in CacheKeys |-> FALSE]

-----------------------------------------------------------------------------
(* The application *)

Init ==
    /\ raw \in MainRaws
    /\ pats = PatsOf(raw)
    /\ selected_fields \in FieldChoices
    /\ include_url \in BOOLEAN
    /\ timeout \in Timeouts
    /\ output_format \in Formats
    /\ pc = "idle"
    /\ i = 0
    /\ rows = <<>>
    /\ out_text = <<>>
    /\ cache = {}
    /\ now = 0
    /\ lastCall = NoCall
    /\ hist = NoHist
    /\ response = NoResponse
    /\ parsed = EmptyDict

widgets == <<raw, pats, selected_fields, include_url, timeout, output_format>>

\* what a call of fetch_one at time t on cache c did: whether a request was
\* issued and the transport's answer to it, whether an expired entry of the key
\* was in the cache, and the dict the caller went on with
Observe(pat, tmo, o, r, data, c, t) ==
    [pat |-> pat, timeout |-> tmo, issued |-> r.issued, raised |-> r.raised,
     stale |-> \E e \in c : e.pat = pat /\ e.timeout = tmo /\ t - e.time >= TTL,
     outcome |-> IF r.issued THEN o ELSE NoOutcome, data |-> data]

\* mutant: a row with an error is skipped
AppendRow_SkipFailed(rs, row) ==
    IF RowGet(row, K_error) \notin {<<>>, None} THEN rs ELSE Append(rs, row)

\* line 191
AppendRow(rs, row) == Append(rs, row)

\* line 168: the Fetch button, enabled when there are identifiers and fields
ClickFetch ==
    /\ pc \in {"idle", "done", "aborted"}
    /\ ~(Len(pats) = 0 \/ Len(selected_fields) = 0)
    /\ pc' = "loop"
    /\ i' = 0
    /\ rows' = <<>>
    /\ out_text' = <<>>
    /\ UNCHANGED <<widgets, cache, now, lastCall, hist, response, parsed>>

\* lines 173-195: one iteration of the loop, the transport answering o if asked
Iterate(o) ==
    /\ pc = "loop"
    /\ i < Len(pats)
    /\ LET pat  == pats[i + 1]
           r    == fetch_one(pat, timeout, o, cache, now)
           data == DataOf(r, pat)
       IN  /\ cache' = r.cache
           /\ lastCall' = Observe(pat, timeout, o, r, data, cache, now)
           /\ hist' = [hist EXCEPT ![<<pat, timeout>>] = r.raised]
           /\ IF r.raised /\ ~Caught(r)
              THEN \* the exception leaves main: the script run ends here
                   /\ pc' = "aborted"
                   /\ UNCHANGED <<rows, i>>
              ELSE /\ rows' = AppendRow(rows, RowOf(data, pat, selected_fields, include_url))
                   /\ i' = i + 1
                   /\ pc' = pc
    /\ UNCHANGED <<widgets, out_text, now, response, parsed>>

\* lines 197-212: the loop is over: "Done." and the delimited text
Finish ==
    /\ pc = "loop"
    /\ i = Len(pats)
    /\ pc' = "done"
    /\ out_text' = Export(rows, output_format)
    /\ UNCHANGED <<widgets, i, rows, cache, now, lastCall, hist, response, parsed>>

\* time passes
Tick ==
    /\ now + ClockStep <= MaxClock
    /\ now' = now + ClockStep
    /\ UNCHANGED <<widgets, pc, i, rows, out_text, cache, lastCall, hist, response, parsed>>

FetchStep == \E o \in MainOutcomes : Iterate(o)

Next == ClickFetch \/ FetchStep \/ Finish \/ Tick

Spec == Init /\ [][Next]_vars

-----------------------------------------------------------------------------
(* Properties of the Fetch loop *)

KeySet(row) == {row[n][1] : n \in 1..Len(row)}
Range(s) == {s[n] : n \in 1..Len(s)}
S_HTTP404 == <<"H","T","T","P"," ","4","0","4">>

\* the request of the last iteration failed: non-200 status or transport exception
LastRequestFailed ==
    /\ lastCall.issued
    /\ \/ lastCall.outcome.kind = "exc"
       \/ lastCall.outcome.kind = "http" /\ lastCall.outcome.code # 200

\* C1: during and after a Fetch run the k-th row is the row of the k-th
\* identifier, whatever the fetches did, and a finished run has exactly one row
\* per identifier.
C1_OneRowPerIdentifier ==
    pc \in {"loop", "done"} =>
        /\ Len(rows) = i
        /\ i <= Len(pats)
        /\ pc = "done" => Len(rows) = Len(pats)
        /\ \A k \in 1..Len(rows) : RowGet(rows[k], K_pat_input) = pats[k]

C1_Witness ==
    /\ pc = "done"
    /\ Len(pats) = 2
    /\ RowGet(rows[1], K_error) # <<>>
    /\ RowGet(rows[2], K_error) = <<>>
    /\ lastCall.issued

\* C2: when the request of an iteration fails, the iteration still appends the
\* identifier's row, with a non-empty error ("HTTP 404" for status 404) and every
\* selected field empty; the exception does not leave main (the run is never
\* aborted), the loop counter moves on, and "Done" is reached only with every
\* identifier processed.
C2_FailureDoesNotAbort ==
    /\ pc # "aborted"
    /\ (pc \in {"loop", "done"} /\ i >= 1 /\ LastRequestFailed) =>
           /\ Len(rows) = i
           /\ RowGet(rows[i], K_pat_input) = lastCall.pat
           /\ RowGet(rows[i], K_error) # <<>>
           /\ RowGet(rows[i], K_error) # None
           /\ (lastCall.outcome.kind = "http" /\ lastCall.outcome.code = 404)
                  => RowGet(rows[i], K_error) = S_HTTP404
           /\ \A f \in Range(selected_fields) : RowGet(rows[i], f) = <<>>
    /\ pc = "done" => i = Len(pats)

C2_Witness ==
    /\ pc = "done"
    /\ Len(rows) = 2
    /\ RowGet(rows[1], K_error) = S_HTTP404
    /\ RowGet(rows[2], K_error) = <<>>
    /\ RowGet(rows[2], F_status) # <<>>
    /\ RowGet(rows[2], F_status) # None

\* the column sequence main gives every row
ExpectedColumns ==
    <<K_pat_input>> \o (IF include_url THEN <<K_url>> ELSE <<>>) \o <<K_error>>
        \o selected_fields

\* first line of a text
FirstLine(text) ==
    LET nl == {k \in 1..Len(text) : text[k] = "\n"}
    IN  IF nl = {} THEN text
        ELSE SubSeq(text, 1, (CHOOSE k \in nl : \A m \in nl : k <= m) - 1)

\* C9 as stated: the columns of a row are the selected fields, url iff the URL
\* option is on, and error only when the row's error is non-empty.
C9_Original ==
    \A k \in 1..Len(rows) :
        KeySet(rows[k]) =
            Range(selected_fields)
                \cup (IF include_url THEN {K_url} ELSE {})
                \cup (IF RowGet(rows[k], K_error) \notin {<<>>, None} THEN {K_error} ELSE {})

\* C9 amended: every row has the columns pat_input, url iff the URL option is
\* on, error (always, empty when there was no error), then the selected fields
\* in their order, and the header line of the output is that column sequence.
C9_Columns ==
    /\ \A k \in 1..Len(rows) : Keys(rows[k]) = ExpectedColumns
    /\ pc = "done" =>
           FirstLine(out_text) = join(<<SepOf(output_format)>>, ExpectedColumns)

C9_Witness ==
    /\ pc = "done"
    /\ include_url
    /\ Len(rows) = 2
    /\ RowGet(rows[1], K_error) = <<>>
    /\ RowGet(rows[2], K_error) # <<>>
    /\ Len(selected_fields) = 3

-----------------------------------------------------------------------------
(* parse_patent_list on its own *)

\* number of pieces an input text is put together from
MaxPieces == 5

Pieces == {<<" ">>, <<",">>, <<"\n">>, PatA, PatB, <<"u","1">>, <<"P","a","t","e","n","t">>}

RECURSIVE Texts(_)
Texts(n) ==
    IF n = 0 THEN {<<>>}
    ELSE LET T == Texts(n - 1) IN T \cup {t \o p : t \in T, p \in Pieces}

ScenarioF == <<"U","S","1","2","3",","," ","U","S","1","2","3"," "," ","U","S","4","5","6">>

idleApp == <<selected_fields, include_url, timeout, output_format, i, rows, out_text,
             cache, now, lastCall, hist, response, parsed>>

IdleApp ==
    /\ selected_fields = DEFAULT_FIELDS
    /\ include_url = FALSE
    /\ timeout = 30
    /\ output_format = "CSV"
    /\ i = 0
    /\ rows = <<>>
    /\ out_text = <<>>
    /\ cache = {}
    /\ now = 0
    /\ lastCall = NoCall
    /\ hist = NoHist
    /\ response = NoResponse
    /\ parsed = EmptyDict

InitParse ==
    /\ raw \in Texts(MaxPieces) \cup {ScenarioF}
    /\ pats = <<>>
    /\ pc = "input"
    /\ IdleApp

ParseInput ==
    /\ pc = "input"
    /\ pats' = parse_patent_list(raw)
    /\ pc' = "parsed"
    /\ UNCHANGED <<raw, idleApp>>

NextParse == ParseInput

SpecParse == InitParse /\ [][NextParse]_vars

\* positions where a token of the text starts: a non-separator at the start of
\* the text or right after a separator
TokenStarts(text) ==
    {s \in 1..Len(text) : ~IsSep(text[s]) /\ (s = 1 \/ IsSep(text[s - 1]))}

\* the token starting at s: up to the next separator or the end of the text
TokenAt(text, s) ==
    LET ends == {e \in s..Len(text) :
                    /\ \A k \in s..e : ~IsSep(text[k])
                    /\ (e = Len(text) \/ IsSep(text[e + 1]))}
    IN  SubSeq(text, s, CHOOSE e \in ends : TRUE)

\* starts of the tokens that are no header word and did not occur before
FirstStarts(text) ==
    {s \in TokenStarts(text) :
        /\ lower(TokenAt(text, s)) \notin Stoplist
        /\ \A s2 \in TokenStarts(text) : s2 < s => TokenAt(text, s2) # TokenAt(text, s)}

\* C3: the result lists, in the order of their first occurrence, exactly the
\* distinct tokens between runs of whitespace and commas that are no header word.
C3_ParsePatentList ==
    pc = "parsed" =>
        /\ Len(pats) = Cardinality(FirstStarts(raw))
        /\ \A n \in 1..Len(pats) :
               \E s \in FirstStarts(raw) :
                   /\ pats[n] = TokenAt(raw, s)
                   /\ Cardinality({s2 \in FirstStarts(raw) : s2 < s}) = n - 1

C3_Witness ==
    /\ pc = "parsed"
    /\ raw = ScenarioF
    /\ pats = <<<<"U","S","1","2","3">>, <<"U","S","4","5","6">>>>

-----------------------------------------------------------------------------
(* parse_core on its own *)

\* number of "events" elements of a document
MaxEvents == 2

TitleTags == {Absent, Elem(<<"U","1"," ","-"," ","T","\n","x">>), Elem(<<"U","1">>)}
InventorTags == {Absent, Elem(<<>>), Elem(<<" ">>), Elem(<<"A","n","n">>), Elem(<<" ","A","n","n","\n">>)}
AssigneeTags == {Absent, Elem(<<>>), Elem(<<" ">>), Elem(S_None), Elem(<<"A","n","n">>), Elem(<<"A","n","n"," ">>),
                 Elem(<<"B","o">>)}
PriorityTags == {Absent, Elem(<<"2","0","1","0">>)}
StatusTags == {Absent, Elem(<<>>), Elem(<<" ">>), Elem(S_Active), Elem(<<" ","A","c","t","i","v","e","\n">>),
               Elem(S_Expired), Elem(<<"E","x","p","i","r","e","d"," ","-"," ","F","e","e">>), Elem(<<"P","e","n","d","i","n","g">>)}
ExpirationTags == {NoTime, TimeElem(<<"2","0","3","0">>, <<"2","0","3","0">>), TimeElem(<<>>, <<"2","0","3","0">>),
                   TimeElem(<<" ","2","0","3","0"," ">>, <<>>)}
EventTags == {Event(<<"A","d","j","u","s","t","e","d"," ","e","x","p","i","r","a","t","i","o","n">>, <<"2","0","3","1">>), Event(<<"A","n","t","i","c","i","p","a","t","e","d"," ","e","x","p","i","r","a","t","i","o","n">>, <<"2","0","3","2">>), Event(<<"A","p","p","l","i","c","a","t","i","o","n"," ","f","i","l","e","d">>, <<"2","0","0","9">>)}

RECURSIVE EventLists(_)
EventLists(n) ==
    IF n = 0 THEN {<<>>}
    ELSE LET L == EventLists(n - 1) IN L \cup {Append(l, e) : l \in L, e \in EventTags}

Docs == [title : TitleTags, inventor : InventorTags, assignee : AssigneeTags,
         priorityDate : PriorityTags, status : StatusTags,
         expiration : ExpirationTags, events : EventLists(MaxEvents)]

idleCore == <<raw, pats, selected_fields, include_url, timeout, output_format, i, rows,
              out_text, cache, now, lastCall, hist>>

InitCore ==
    /\ response \in [text : Docs, status_code : {200}]
    /\ parsed = EmptyDict
    /\ pc = "fetched"
    /\ raw = <<>>
    /\ pats = <<>>
    /\ selected_fields = DEFAULT_FIELDS
    /\ include_url = FALSE
    /\ timeout = 30
    /\ output_format = "CSV"
    /\ i = 0
    /\ rows = <<>>
    /\ out_text = <<>>
    /\ cache = {}
    /\ now = 0
    /\ lastCall = NoCall
    /\ hist = NoHist

ParseCore ==
    /\ pc = "fetched"
    /\ parsed' = parse_core(response)
    /\ pc' = "extracted"
    /\ UNCHANGED <<response, idleCore>>

NextCore == ParseCore

SpecCore == InitCore /\ [][NextCore]_vars

S_ActiveExp2030 == <<"A","c","t","i","v","e"," ","(","E","x","p","."," ","2","0","3","0",")">>
S_AssigneeNone == <<"A","s","s","i","g","n","e","e",":"," ","N","o","n","e">>
S_AdjustedExpiration == <<"a","d","j","u","s","t","e","d"," ","e","x","p","i","r","a","t","i","o","n">>
S_AnticipatedExpiration == <<"a","n","t","i","c","i","p","a","t","e","d"," ","e","x","p","i","r","a","t","i","o","n">>

\* an expiration value was found for the record
ExpFound == parsed[F_exp_date] # S_DateMissing

\* C4 as stated: the sentinel only for an absent status element, the trimmed
\* text unchanged for a present element with other or empty text.
C4_Original ==
    pc = "extracted" =>
        LET tag  == response.text.status
            text == strip(tag.text)
        IN  parsed[F_status] =
                IF ~tag.present THEN S_NoStatus
                ELSE IF Contains(text, S_Expired) THEN S_Expired
                ELSE IF text = S_Active /\ ExpFound
                     THEN S_Active \o S_ExpOpen \o parsed[F_exp_date] \o S_ExpClose
                ELSE text

\* C4 amended: the composed status is "No status or exp date" when the status
\* element is absent or its trimmed text is empty, "Expired" when the trimmed
\* text contains "Expired", "Active (Exp. <exp_date>)" when it equals "Active"
\* and an expiration value was found, and the trimmed text otherwise.
C4_ComposedStatus ==
    pc = "extracted" =>
        LET tag  == response.text.status
            text == strip(tag.text)
        IN  parsed[F_status] =
                IF ~tag.present \/ text = <<>> THEN S_NoStatus
                ELSE IF Contains(text, S_Expired) THEN S_Expired
                ELSE IF text = S_Active /\ ExpFound
                     THEN S_Active \o S_ExpOpen \o parsed[F_exp_date] \o S_ExpClose
                ELSE text

C4_Witness ==
    /\ pc = "extracted"
    /\ response.text.status = Elem(<<" ","A","c","t","i","v","e","\n">>)
    /\ parsed[F_status] = S_ActiveExp2030

\* datetime of the first event whose title contains the phrase, ignoring case
EventDatetime(events, phrase) ==
    LET hits == {n \in 1..Len(events) : Contains(lower(events[n].title), phrase)}
    IN  IF hits = {} THEN <<>>
        ELSE events[CHOOSE n \in hits : \A m \in hits : n <= m].datetime

\* datetime of the first event that carries one
AnyEventDatetime(events) ==
    LET hits == {n \in 1..Len(events) : events[n].datetime # <<>>}
    IN  IF hits = {} THEN <<>>
        ELSE events[CHOOSE n \in hits : \A m \in hits : n <= m].datetime

\* C5: exp_date is the first non-empty of the expiration element's datetime,
\* the "adjusted expiration" event's, the "anticipated expiration" event's and
\* the first event datetime; "DATE MISSING" only when all four are empty.
C5_ExpDateSources ==
    pc = "extracted" =>
        LET doc == response.text
            a == IF doc.expiration.present THEN doc.expiration.datetime ELSE <<>>
            b == EventDatetime(doc.events, S_AdjustedExpiration)
            c == EventDatetime(doc.events, S_AnticipatedExpiration)
            d == AnyEventDatetime(doc.events)
        IN  parsed[F_exp_date] =
                IF a # <<>> THEN a
                ELSE IF b # <<>> THEN b
                ELSE IF c # <<>> THEN c
                ELSE IF d # <<>> THEN d
                ELSE S_DateMissing

\* the document's assignee text repeats its inventor text
SameAssigneeAndInventor ==
    LET doc == response.text
    IN  /\ doc.assignee.present
        /\ doc.inventor.present
        /\ strip(doc.assignee.text) = strip(doc.inventor.text)

Unlabelled(v, label) == SubSeq(v, Len(label) + 1, Len(v))

-----------------------------------------------------------------------------
(* fetch_one and its cache on their own *)

CacheOutcomes == {HttpOutcome(200, EmptyDoc), HttpOutcome(404, EmptyDoc),
                  ExcOutcome("Timeout", <<"t","i","m","e","d"," ","o","u","t">>)}

InitCache ==
    /\ cache = {}
    /\ now = 0
    /\ lastCall = NoCall
    /\ hist = NoHist
    /\ pc = "idle"
    /\ raw = <<>>
    /\ pats = <<>>
    /\ selected_fields = DEFAULT_FIELDS
    /\ include_url = FALSE
    /\ timeout = 30
    /\ output_format = "CSV"
    /\ i = 0
    /\ rows = <<>>
    /\ out_text = <<>>
    /\ response = NoResponse
    /\ parsed = EmptyDict

\* a call fetch_one(pat, tmo), the transport answering o if asked
CallFetchOne(pat, tmo, o) ==
    /\ LET r == fetch_one(pat, tmo, o, cache, now)
       IN  /\ cache' = r.cache
           /\ lastCall' = Observe(pat, tmo, o, r, r.data, cache, now)
           /\ hist' = [hist EXCEPT ![<<pat, tmo>>] = r.raised]
    /\ UNCHANGED <<widgets, pc, i, rows, out_text, now, response, parsed>>

Call == \E pat \in PatIds, tmo \in Timeouts, o \in CacheOutcomes : CallFetchOne(pat, tmo, o)

NextCache == Call \/ Tick

SpecCache == InitCache /\ [][NextCache]_vars

EntriesOf(c, pat, tmo) == {e \in c : e.pat = pat /\ e.timeout = tmo}

\* C7: the cache holds at most one entry per (identifier, timeout); a call that
\* issues no request returns the value of an entry of its key that is at most
\* one hour old, and a call that finds only an entry older than one hour issues
\* a request.
C7_OneEntry ==
    \A k \in CacheKeys : Cardinality(EntriesOf(cache, k[1], k[2])) <= 1

C7_NoStaleEntry ==
    \A pat \in PatIds, tmo \in Timeouts, o \in CacheOutcomes :
        CallFetchOne(pat, tmo, o) =>
            /\ ~lastCall'.issued =>
                   \E e \in EntriesOf(cache, pat, tmo) :
                       /\ now - e.time <= TTL
                       /\ lastCall'.data = e.value
            /\ (\A e \in EntriesOf(cache, pat, tmo) : now - e.time > TTL)
                   => lastCall'.issued

C7_CacheExpiry == []C7_OneEntry /\ [][C7_NoStaleEntry]_vars

C7_Witness ==
    /\ lastCall.issued
    /\ lastCall.stale
    /\ Cardinality(cache) >= 2
    /\ \E e \in EntriesOf(cache, lastCall.pat, lastCall.timeout) : e.time = now

\* C10: a non-200 outcome is stored like a success, so within the expiry window
\* the next call of the key returns the stored "HTTP <code>" dict without a
\* request; an exception stores nothing, so the next call of a key whose last
\* call raised issues a request.
C10_Step ==
    \A pat \in PatIds, tmo \in Timeouts, o \in CacheOutcomes :
        CallFetchOne(pat, tmo, o) =>
            /\ \A e \in EntriesOf(cache, pat, tmo) :
                   (now - e.time < TTL /\ e.value[K_error_] # <<>>) =>
                       /\ ~lastCall'.issued
                       /\ lastCall'.data = e.value
                       /\ cache' = cache
            /\ (lastCall'.issued /\ o.kind = "http") =>
                   \E e \in EntriesOf(cache', pat, tmo) :
                       e.value = lastCall'.data /\ e.time = now
            /\ lastCall'.raised => cache' = cache
            /\ hist[<<pat, tmo>>] => lastCall'.issued

C10_ErrorsCachedExceptionsNot == [][C10_Step]_vars

C10_Witness ==
    /\ ~lastCall.issued
    /\ lastCall.pat = PatA
    /\ lastCall.data[K_error_] = S_HTTP404
    /\ hist[<<PatB, lastCall.timeout>>]

-----------------------------------------------------------------------------
(* The export on its own *)

\* longest cell value
MaxCellLen == 2

CellAlphabet == {"a", ",", "\t", "\"", "\n"}

RECURSIVE Cells(_)
Cells(n) ==
    IF n = 0 THEN {<<>>}
    ELSE LET C == Cells(n - 1) IN C \cup {Append(c, x) : c \in C, x \in CellAlphabet}

TableRow(pat, err, title) == <<<<K_pat_input, pat>>, <<K_error, err>>, <<F_title, title>>>>

\* result sets of one run with the title field selected: one row with any error
\* and title, or two rows with any titles
Tables ==
    {<<TableRow(PatA, e, t)>> : e \in Cells(MaxCellLen), t \in Cells(MaxCellLen)}
        \cup {<<TableRow(PatA, <<>>, t1), TableRow(PatB, <<>>, t2)>> :
                 t1 \in Cells(MaxCellLen), t2 \in Cells(MaxCellLen)}

InitExport ==
    /\ rows \in Tables
    /\ output_format \in Formats
    /\ out_text = <<>>
    /\ pc = "loop"
    /\ pats = [n \in 1..Len(rows) |-> rows[n][1][2]]
    /\ i = Len(rows)
    /\ raw = <<>>
    /\ selected_fields = <<F_title>>
    /\ include_url = FALSE
    /\ timeout = 30
    /\ cache = {}
    /\ now = 0
    /\ lastCall = NoCall
    /\ hist = NoHist
    /\ response = NoResponse
    /\ parsed = EmptyDict

NextExport == Finish

SpecExport == InitExport /\ [][NextExport]_vars

\* Reading delimited text by the standard rules: a field that starts with a
\* double quote runs to the closing quote, a doubled quote inside it is one
\* quote; fields end at the separator, records at the line break.
\* st is "start" (at the start of a field), "plain" (in an unquoted field),
\* "quoted" (in a quoted field) or "quote" (after a quote in a quoted field).
RECURSIVE ReadDelimited(_, _, _, _, _, _)
ReadDelimited(text, sep, k, st, field, record) ==
    IF k > Len(text) THEN <<Append(record, field)>>
    ELSE LET c == text[k]
         IN  IF st = "quoted"
             THEN IF c = "\""
                  THEN ReadDelimited(text, sep, k + 1, "quote", field, record)
                  ELSE ReadDelimited(text, sep, k + 1, "quoted", Append(field, c), record)
             ELSE IF st = "quote" /\ c = "\""
             THEN ReadDelimited(text, sep, k + 1, "quoted", Append(field, c), record)
             ELSE IF c = sep
             THEN ReadDelimited(text, sep, k + 1, "start", <<>>, Append(record, field))
             ELSE IF c = "\n"
             THEN <<Append(record, field)>>
                      \o ReadDelimited(text, sep, k + 1, "start", <<>>, <<>>)
             ELSE IF st = "start" /\ c = "\""
             THEN ReadDelimited(text, sep, k + 1, "quoted", field, record)
             ELSE ReadDelimited(text, sep, k + 1, "plain", Append(field, c), record)

\* the header and the cell values of a result set
CellsOf(rs) ==
    <<Keys(rs[1])>> \o [n \in 1..Len(rs) |-> [m \in 1..Len(rs[n]) |-> rs[n][m][2]]]

\* C8: reading the exported text back by the standard rules gives the header
\* and every cell value of the result set, for the comma and for the tab.
C8_RoundTrip ==
    pc = "done" =>
        ReadDelimited(out_text, SepOf(output_format), 1, "start", <<>>, <<>>) = CellsOf(rows)

C8_Witness ==
    /\ pc = "done"
    /\ output_format = "TSV"
    /\ Len(rows) = 2
    /\ rows[1][3][2] = <<"\"", "\t">>
    /\ rows[2][3][2] = <<"\n", ",">>
====
